---- MODULE Spec2Model ----
(***************************************************************************)
(* Client Dispatcher of the Kaz Legal Bot front end                        *)
(* (src/frontend/script.js): the preset short-circuit, the readiness gate, *)
(* apiFetch with its retry loop, and sendMessage; and the Edge Relay       *)
(* (src/frontend/api/[...path].js): one invocation of its handler.         *)
(*                                                                         *)
(* Spec runs sendMessage, FetchSpec runs apiFetch called directly,         *)
(* OverlapSpec runs overlapping invocations of sendMessage, LegacySpec     *)
(* runs the legacy streaming sendMessage (src/unnamed/part_000), and       *)
(* RelaySpec runs the relay handler.                                       *)
(*                                                                         *)
(* Strings of the source that are not ASCII are written in transliteration.*)
(* A JavaScript value is written as a string; the three values that are    *)
(* not strings have reserved spellings (JsTrue, JsFalse, Undefined).       *)
(***************************************************************************)
EXTENDS Integers, Sequences, FiniteSets, TLC

\* ------------------------------------------------------------------ bounds
\* number of sendMessage invocations in one behaviour (they may overlap)
MaxSends == 1
\* number of sendMessage invocations in one behaviour of OverlapSpec
MaxOverlap == 2
\* largest `retries` argument given to apiFetch when it is called directly
MaxRetries == 3
\* number of text() and json() calls made on one returned wrapper
MaxAccessorCalls == 2
\* largest number of chunks in a backend response body
MaxChunks == 2

\* the invocation slots: enough for either specification of sendMessage
Sends == 1..(IF MaxOverlap > MaxSends THEN MaxOverlap ELSE MaxSends)

\* ------------------------------------------------------- JavaScript values
JsTrue == "js:true"
JsFalse == "js:false"
Undefined == "js:undefined"
Null == "js:null"

\* ToBoolean on the values used here
Truthy(v) == v \notin {JsFalse, Undefined, Null, ""}

IsBoolean(v) == v \in {JsTrue, JsFalse}

\* ------------------------------------------------------------ preset table
K_UVOLITSYA == "Kak pravilno uvolitsya s raboty?"
K_ARENDATOR == "Kakie prava u arendatora zhilya?"
K_ALIMENTY == "Kak podat na alimenty?"
K_DTP == "Chto delat pri DTP?"

PRESET_ANSWERS ==
    (K_UVOLITSYA :> "<h3>Yuridicheskaya otsenka</h3>...")
 @@ (K_ARENDATOR :> "<h3>Klyuchevye prava arendatora</h3>...")
 @@ (K_ALIMENTY :> "<h3>Varianty vzyskaniya</h3>...")
 @@ (K_DTP :> "<h3>Bezopasnost na pervom meste</h3>...")

\* PRESET_ANSWERS is an object literal: its prototype is Object.prototype,
\* whose properties a bracket lookup also finds.
ObjectPrototype ==
    ("constructor" :> "function Object() { [native code] }")
 @@ ("toString" :> "function toString() { [native code] }")
 @@ ("__proto__" :> "[object Object]")

\* variant: the key of the fourth entry is misspelt in the table
PresetLookup_MissingKey(messageText) ==
    IF messageText \in DOMAIN PRESET_ANSWERS \ {K_DTP} THEN PRESET_ANSWERS[messageText]
    ELSE IF messageText \in DOMAIN ObjectPrototype THEN ObjectPrototype[messageText]
    ELSE Undefined

\* PRESET_ANSWERS[messageText]
PresetLookup(messageText) ==
    IF messageText \in DOMAIN PRESET_ANSWERS THEN PRESET_ANSWERS[messageText]
    ELSE IF messageText \in DOMAIN ObjectPrototype THEN ObjectPrototype[messageText]
    ELSE Undefined

\* ------------------------------------------------------------------ inputs
NOVEL == "some novel question"

\* the argument of sendMessage: askQuestion(question) passes a string, the
\* send button and the Enter key pass nothing (null)
MessageArgs ==
    (DOMAIN PRESET_ANSWERS) \cup {"constructor", NOVEL, " Chto delat pri DTP?", Null}

\* what the textarea holds when sendMessage() reads it
InputValues == {"", "   ", "  Kak podat na alimenty?  "}

\* String.prototype.trim on the values the textarea can hold
Trim(v) ==
    CASE v = "   " -> ""
      [] v = "  Kak podat na alimenty?  " -> K_ALIMENTY
      [] v = " Chto delat pri DTP?" -> K_DTP
      [] OTHER -> v

\* ------------------------------------------------------- HTTP and JSON
BASE_DELAY == 800
THINKING_DELAY == 2000

Paths == {"/health", "/ask"}
Statuses == {200, 503}

\* Response.ok
IsOk(status) == status >= 200 /\ status <= 299

\* Response.statusText
StatusText(status) == IF status = 200 THEN "OK" ELSE "Service Unavailable"

CT_JSON == "application/json; charset=utf-8"
CT_HTML == "text/html"
ContentTypes == {CT_JSON, CT_HTML}

\* ct.includes("application/json")
IncludesJson(ct) == ct = CT_JSON

B_READY == "{\"index_ready\":true}"
B_NOT_READY == "{\"index_ready\":false}"
B_ANSWER == "{\"ok\":true,\"answer_html\":\"<p>Otvet</p>\"}"
B_ERROR == "{\"ok\":false,\"error\":{\"code\":\"E\",\"message\":\"Limit zaprosov\"}}"
B_ERROR_BARE == "{\"ok\":false}"
B_EMPTY_OBJECT == "{}"
B_NULL == "null"
B_HTML == "<html>Bad Gateway</html>"

BodyTexts(path) ==
    IF path = "/health"
    THEN {B_READY, B_NOT_READY, B_EMPTY_OBJECT, B_NULL, "", B_HTML}
    ELSE {B_ANSWER, B_ERROR, B_ERROR_BARE, B_NULL, "", B_HTML}

\* A parsed JSON value: null, or an object with the properties the client reads
EmptyObject ==
    [isNull |-> FALSE, ok |-> Undefined, error_message |-> Undefined,
     answer_html |-> Undefined, index_ready |-> Undefined, raw |-> Undefined]

\* JSON.parse: the parsed value, or a SyntaxError
JSONParse(text) ==
    CASE text = B_READY -> [throws |-> FALSE, value |-> [EmptyObject EXCEPT !.index_ready = JsTrue]]
      [] text = B_NOT_READY -> [throws |-> FALSE, value |-> [EmptyObject EXCEPT !.index_ready = JsFalse]]
      [] text = B_ANSWER ->
            [throws |-> FALSE,
             value |-> [EmptyObject EXCEPT !.ok = JsTrue, !.answer_html = "<p>Otvet</p>"]]
      [] text = B_ERROR ->
            [throws |-> FALSE,
             value |-> [EmptyObject EXCEPT !.ok = JsFalse, !.error_message = "Limit zaprosov"]]
      [] text = B_ERROR_BARE -> [throws |-> FALSE, value |-> [EmptyObject EXCEPT !.ok = JsFalse]]
      [] text = B_EMPTY_OBJECT -> [throws |-> FALSE, value |-> EmptyObject]
      [] text = B_NULL -> [throws |-> FALSE, value |-> [EmptyObject EXCEPT !.isNull = TRUE]]
      [] OTHER -> [throws |-> TRUE, value |-> EmptyObject]

\* What one fetch attempt can come to:
\*   reject      fetch(url, opts) rejects (DNS, refused connection, abort)
\*   unreadable  fetch resolves, res.clone().text() rejects
\*   response    fetch resolves and the body text is read
NoOutcome == [kind |-> "none", status |-> 0, ct |-> "", text |-> ""]

Outcomes(path) ==
    {[kind |-> "reject", status |-> 0, ct |-> "", text |-> ""]}
    \cup {[kind |-> "unreadable", status |-> st, ct |-> CT_JSON, text |-> ""] : st \in Statuses}
    \cup {[kind |-> "response", status |-> 503, ct |-> CT_HTML, text |-> t] : t \in {"", B_HTML}}
    \cup {[kind |-> "response", status |-> 503, ct |-> CT_JSON,
           text |-> IF path = "/health" THEN B_NOT_READY ELSE B_ERROR]}
    \cup {[kind |-> "response", status |-> 200, ct |-> CT_JSON, text |-> t] : t \in BodyTexts(path)}
    \cup {[kind |-> "response", status |-> 200, ct |-> CT_HTML, text |-> t] :
            t \in {B_HTML, IF path = "/health" THEN B_READY ELSE B_ANSWER}}

\* Error objects: name, and the message in three parts (head, status, detail)
NoError == [name |-> "", head |-> "", status |-> 0, detail |-> ""]
FetchTypeError == [name |-> "TypeError", head |-> "", status |-> 0, detail |-> "Failed to fetch"]
BodyTypeError == [name |-> "TypeError", head |-> "", status |-> 0, detail |-> "network error"]
JsonSyntaxError ==
    [name |-> "SyntaxError", head |-> "", status |-> 0, detail |-> "Unexpected token in JSON"]

\* variant: new Error(`HTTP ${res.status}: ${res.statusText}`)
HttpError_StatusTextOnly(status, text) ==
    [name |-> "Error", head |-> "HTTP", status |-> status, detail |-> StatusText(status)]

\* new Error(`HTTP ${res.status}: ${text || res.statusText}`)
HttpError(status, text) ==
    [name |-> "Error", head |-> "HTTP", status |-> status,
     detail |-> IF text # "" THEN text ELSE StatusText(status)]

\* the response wrapper apiFetch returns
NoWrapper == [ok |-> FALSE, status |-> 0, ct |-> "", text |-> ""]
Wrapper(o) == [ok |-> TRUE, status |-> o.status, ct |-> o.ct, text |-> o.text]

\* wrapper.json()
WrapperJson(w) ==
    IF IncludesJson(w.ct)
    THEN JSONParse(IF w.text # "" THEN w.text ELSE "{}")
    ELSE [throws |-> FALSE, value |-> [EmptyObject EXCEPT !.raw = w.text]]

\* ---------------------------------------------------------- request body
\* the session identifier kept in localStorage under 'kazLegalBotSessionId'
sessionId == "session_1700000000000_k3j5h7x9q"

\* The value of options.body: nothing, a string (a sequence of pieces), or an
\* object with the properties question and session_id; circular marks an
\* object that refers to itself.
NoBody ==
    [type |-> "undefined", question |-> Undefined, session_id |-> Undefined,
     circular |-> FALSE, chars |-> << >>]
StringBody(chars) ==
    [type |-> "string", question |-> Undefined, session_id |-> Undefined,
     circular |-> FALSE, chars |-> chars]
ObjectBody(question, session, circular) ==
    [type |-> "object", question |-> question, session_id |-> session,
     circular |-> circular, chars |-> << >>]

\* JSON.stringify of an object body: properties that are undefined are left
\* out, a circular structure throws a TypeError
JSONStringify(b) ==
    IF b.circular THEN [throws |-> TRUE, value |-> NoBody]
    ELSE [throws |-> FALSE,
          value |-> StringBody(
              <<"{">>
              \o (IF b.question # Undefined THEN <<"\"question\":", b.question>> ELSE << >>)
              \o (IF b.question # Undefined /\ b.session_id # Undefined THEN <<",">> ELSE << >>)
              \o (IF b.session_id # Undefined THEN <<"\"session_id\":", b.session_id>> ELSE << >>)
              \o <<"}">>)]

\* the body-preview block of apiFetch: opts.body after it, and how often
\* opts.body was replaced by a serialization; catch (_) {} swallows a throw
prepareBody(b) ==
    IF b.type = "object"
    THEN LET j == JSONStringify(b) IN
         IF j.throws THEN [body |-> b, assigned |-> 0]
         ELSE [body |-> j.value, assigned |-> 1]
    ELSE [body |-> b, assigned |-> 0]

\* the request of one apiFetch call: what was given, opts.method and
\* opts.body as every attempt passes them to fetch
NoRequest == [method |-> "", given |-> NoBody, body |-> NoBody, assigned |-> 0]
Request(method, b) ==
    [method |-> method, given |-> b, body |-> prepareBody(b).body,
     assigned |-> prepareBody(b).assigned]

\* the body of the /ask call: { question: messageText.trim() }
askBody(text) == ObjectBody(text, Undefined, FALSE)

\* variant: an accessor reads the response stream again, after the buffered
\* read has consumed it
AccessorCall_ReadsStream(w, fn) ==
    [fn |-> fn, throws |-> TRUE, text |-> "", json |-> EmptyObject, reads |-> 1]

\* one call of wrapper.text() or wrapper.json(): whether it throws, what it
\* returns, and how often it reads the response stream
AccessorCall(w, fn) ==
    IF fn = "text"
    THEN [fn |-> fn, throws |-> FALSE, text |-> w.text, json |-> EmptyObject, reads |-> 0]
    ELSE [fn |-> fn, throws |-> WrapperJson(w).throws, text |-> "",
          json |-> WrapperJson(w).value, reads |-> 0]

\* await res.clone().text(): the reads of the body one attempt makes
BodyReads(o) == IF o.kind \in {"response", "unreadable"} THEN 1 ELSE 0

\* -------------------------------------------------------------- apiFetch
\* the frame of one apiFetch call: the loop index and where it is suspended
NoFrame == [path |-> "", retries |-> 0, i |-> 0, phase |-> "none"]

\* variant: the loop runs while i <= retries + 1
apiFetch_ExtraPass(path, retries) ==
    [path |-> path, retries |-> retries + 1, i |-> 0, phase |-> "fetch"]

\* apiFetch(path, options, retries) up to its first await: the first fetch
apiFetch(path, retries) == [path |-> path, retries |-> retries, i |-> 0, phase |-> "fetch"]

\* the error one attempt of the loop ends with (the try block throws it)
AttemptError(o) ==
    CASE o.kind = "reject" -> FetchTypeError
      [] o.kind = "unreadable" -> BodyTypeError
      [] OTHER -> HttpError(o.status, o.text)

\* variant: a non-2xx status is rethrown at once, only transport errors retry
Attempt_HttpNotRetried(f, o) ==
    IF o.kind = "response" /\ IsOk(o.status)
    THEN [next |-> "return", wrapper |-> Wrapper(o), error |-> NoError, delay |-> 0]
    ELSE IF f.i < f.retries /\ o.kind # "response"
    THEN [next |-> "sleep", wrapper |-> NoWrapper, error |-> AttemptError(o),
          delay |-> BASE_DELAY * (f.i + 1)]
    ELSE [next |-> "throw", wrapper |-> NoWrapper, error |-> AttemptError(o), delay |-> 0]

\* variant: setTimeout(r, 800), the same delay before every retry
Attempt_ConstantDelay(f, o) ==
    IF o.kind = "response" /\ IsOk(o.status)
    THEN [next |-> "return", wrapper |-> Wrapper(o), error |-> NoError, delay |-> 0]
    ELSE IF f.i < f.retries
    THEN [next |-> "sleep", wrapper |-> NoWrapper, error |-> AttemptError(o),
          delay |-> BASE_DELAY]
    ELSE [next |-> "throw", wrapper |-> NoWrapper, error |-> AttemptError(o), delay |-> 0]

\* variant: the catch block tests i <= retries before the last throw
Attempt_OneRetryMore(f, o) ==
    IF o.kind = "response" /\ IsOk(o.status)
    THEN [next |-> "return", wrapper |-> Wrapper(o), error |-> NoError, delay |-> 0]
    ELSE IF f.i < f.retries + 1
    THEN [next |-> "sleep", wrapper |-> NoWrapper, error |-> AttemptError(o),
          delay |-> BASE_DELAY * (f.i + 1)]
    ELSE [next |-> "throw", wrapper |-> NoWrapper, error |-> AttemptError(o), delay |-> 0]

\* one pass of the loop body once fetch and text() have settled
Attempt(f, o) ==
    IF o.kind = "response" /\ IsOk(o.status)
    THEN [next |-> "return", wrapper |-> Wrapper(o), error |-> NoError, delay |-> 0]
    ELSE IF f.i < f.retries
    THEN [next |-> "sleep", wrapper |-> NoWrapper, error |-> AttemptError(o),
          delay |-> BASE_DELAY * (f.i + 1)]
    ELSE [next |-> "throw", wrapper |-> NoWrapper, error |-> AttemptError(o), delay |-> 0]

\* checkServerReady once apiFetch("/health") has returned or thrown
checkServerReady(a) ==
    IF a.next = "throw" THEN JsFalse
    ELSE LET j == WrapperJson(a.wrapper) IN
         IF j.throws \/ j.value.isNull THEN JsFalse
         ELSE j.value.index_ready

\* ------------------------------------------------------------ Edge Relay
\* The file holds two versions of the handler, named by the line each starts at.
Handlers == {"handler@3", "handler@83"}

\* process.env.BACKEND_URL is not set: the fallback address of each version
BACKEND_URL(h) ==
    IF h = "handler@3" THEN "https://tegailawyer-production.up.railway.app/api"
    ELSE "http://localhost:5000"

\* the incoming request: method, query.path joined, the two headers the
\* handler reads ("" when absent) and the parsed body
NoIncoming ==
    [method |-> "", path |-> "", contentType |-> "", authorization |-> "", body |-> NoBody]
Incoming(method, path, ct, auth, body) ==
    [method |-> method, path |-> path, contentType |-> ct, authorization |-> auth,
     body |-> body]

\* the requests the relay is given
Incomings ==
    {Incoming("OPTIONS", p, "", "", NoBody) : p \in {"health", "ask"}}
    \cup {Incoming("GET", "health", ct, auth, NoBody) :
            ct \in {"", CT_JSON}, auth \in {"", "Bearer t"}}
    \cup {Incoming("GET", "health", CT_JSON, "", ObjectBody(NOVEL, Undefined, FALSE))}
    \cup {Incoming("POST", "ask", ct, auth, b) :
            ct \in {"", CT_JSON}, auth \in {"", "Bearer t"},
            b \in {NoBody, StringBody(<< >>), StringBody(<<"question=", NOVEL>>),
                   ObjectBody(NOVEL, Undefined, FALSE)}}

\* variant: no request is taken for a preflight
IsPreflight_Never(r) == FALSE

\* req.method === 'OPTIONS'
IsPreflight(r) == r.method = "OPTIONS"

\* ToBoolean of req.body: an object, or a string that is not empty
TruthyBody(b) == b.type = "object" \/ (b.type = "string" /\ b.chars # << >>)

\* variant: the Authorization header is not copied
BackendCall_NoAuthorization(h, r) ==
    [url |-> <<BACKEND_URL(h), "/", r.path>>,
     method |-> r.method,
     contentType |-> IF r.contentType # "" THEN r.contentType ELSE "application/json",
     authorization |-> "",
     body |-> IF r.method \notin {"GET", "HEAD"} /\ TruthyBody(r.body)
              THEN (IF r.body.type = "string" THEN r.body ELSE JSONStringify(r.body).value)
              ELSE NoBody,
     stringified |-> IF r.method \notin {"GET", "HEAD"} /\ r.body.type = "object"
                     THEN 1 ELSE 0]

\* fetch(url, fetchOptions) as the backend's call recorder sees it; stringified
\* counts the JSON.stringify calls made for the body
BackendCall(h, r) ==
    [url |-> <<BACKEND_URL(h), "/", r.path>>,
     method |-> r.method,
     contentType |-> IF r.contentType # "" THEN r.contentType ELSE "application/json",
     authorization |-> r.authorization,
     body |-> IF r.method \notin {"GET", "HEAD"} /\ TruthyBody(r.body)
              THEN (IF r.body.type = "string" THEN r.body ELSE JSONStringify(r.body).value)
              ELSE NoBody,
     stringified |-> IF r.method \notin {"GET", "HEAD"} /\ r.body.type = "object"
                     THEN 1 ELSE 0]

\* the backend's response: status, Content-Type ("" when absent), whether it
\* has a body stream, and the chunks the stream yields
NoBackendResponse == [status |-> 0, ct |-> "", hasBody |-> FALSE, chunks |-> << >>]
Chunks == {B_READY, "<p>", "Otvet</p>"}
RECURSIVE ChunkSeqs(_)
ChunkSeqs(n) ==
    IF n = 0 THEN {<< >>}
    ELSE ChunkSeqs(n - 1) \cup {Append(q, c) : q \in {x \in ChunkSeqs(n - 1) : Len(x) = n - 1},
                                              c \in Chunks}
BackendResponses ==
    {[status |-> st, ct |-> ct, hasBody |-> TRUE, chunks |-> q] :
        st \in Statuses, ct \in {"", CT_JSON}, q \in ChunkSeqs(MaxChunks)}
    \cup {[status |-> st, ct |-> ct, hasBody |-> FALSE, chunks |-> << >>] :
        st \in Statuses, ct \in {"", CT_JSON}}

\* the response object res: the headers set ("" when not set), every status
\* set, the chunks written, the envelope sent by res.json(), how often it was
\* ended, and whether the head has gone out
NoEnvelope == [error |-> "", details |-> ""]
FreshResponse ==
    [acao |-> "", allowMethods |-> "", allowHeaders |-> "", allowCredentials |-> "",
     maxAge |-> "", contentType |-> "", statuses |-> << >>, written |-> << >>,
     envelope |-> NoEnvelope, ended |-> 0, headersSent |-> FALSE]

\* res.status(code)
resStatus(r, code) == [r EXCEPT !.statuses = Append(@, code)]
\* res.write(value): the first write sends the head
resWrite(r, value) == [r EXCEPT !.written = Append(@, value), !.headersSent = TRUE]
\* res.end()
resEnd(r) == [r EXCEPT !.ended = @ + 1, !.headersSent = TRUE]
\* res.json(obj)
resJson(r, obj) ==
    [r EXCEPT !.contentType = "application/json; charset=utf-8", !.envelope = obj,
              !.ended = @ + 1, !.headersSent = TRUE]

\* the preflight answer of each version
preflight(h, r) ==
    IF h = "handler@3"
    THEN resEnd(resStatus([r EXCEPT !.acao = "*", !.allowMethods = "GET, POST, OPTIONS",
                              !.allowHeaders = "Content-Type"], 200))
    ELSE resEnd(resStatus([r EXCEPT !.acao = "*", !.allowMethods = "GET, POST, OPTIONS, DELETE",
                              !.allowHeaders = "Content-Type, Authorization",
                              !.allowCredentials = "true", !.maxAge = "86400"], 200))

\* variant: only the origin header is set on a forwarded response
setCorsHeaders_OriginOnly(r) == [r EXCEPT !.acao = "*"]

\* the CORS headers of a forwarded response
setCorsHeaders(r) ==
    [r EXCEPT !.acao = "*", !.allowMethods = "GET, POST, OPTIONS, DELETE",
              !.allowHeaders = "Content-Type, Authorization", !.allowCredentials = "true"]

\* variant: the relay answers 200 whatever the backend's status is
forwardHead_Status200(r, b) ==
    resStatus([setCorsHeaders(r) EXCEPT !.contentType = IF b.ct # "" THEN b.ct ELSE @], 200)

\* after fetch resolved: CORS headers, the Content-Type if there is one, the status
forwardHead(r, b) ==
    resStatus([setCorsHeaders(r) EXCEPT !.contentType = IF b.ct # "" THEN b.ct ELSE @],
           b.status)

\* variant: the catch block sets no header
proxyError_NoCors(r, msg) ==
    resJson(resStatus(r, 500), [error |-> "Proxy error", details |-> msg])

\* the catch block, entered while the head has not gone out
proxyError(r, msg) ==
    resJson(resStatus([r EXCEPT !.acao = "*"], 500), [error |-> "Proxy error", details |-> msg])

\* ------------------------------------------------------------------ state
VARIABLES
    chat,              \* chatHistory: the message elements, in document order
    loading,           \* loadingOverlay has the class 'show'
    pc,                \* where each sendMessage invocation is suspended
    message,           \* its argument
    messageText,       \* its messageText
    aiMessageElement,  \* preset path: position in chat of the placeholder element
    af,                \* the apiFetch frame it is awaiting
    net,               \* recorder: the fetch and setTimeout calls it has made
    lastRes,           \* recorder: what its latest fetch attempt came to
    ready,             \* what checkServerReady returned to it
    returned,          \* the wrapper its latest apiFetch returned
    thrown,            \* the error its latest apiFetch threw, or that it caught
    result,            \* the exit it took
    opts,              \* the request of the apiFetch call it is awaiting
    sent,              \* recorder: path, method and body of every fetch it made
    reads,             \* how often the body of the response it holds was read
    calls              \* recorder: the wrapper accessor calls made for it

clientVars ==
    <<chat, loading, pc, message, messageText, aiMessageElement, af, net,
      lastRes, ready, returned, thrown, result, opts, sent, reads, calls>>

\* one invocation of the Edge Relay handler
VARIABLES
    handlerVersion,    \* which version of the handler is deployed
    req,               \* the incoming request
    relayState,        \* where the invocation is
    res,               \* the response object
    backendCalls,      \* recorder: the fetch calls made to the backend
    backendResponse,   \* what fetch resolved to
    chunksRead,        \* how many chunks reader.read() has yielded
    stream             \* recorder: reads issued and settled, writes and ends, in order

relayVars ==
    <<handlerVersion, req, relayState, res, backendCalls, backendResponse, chunksRead,
      stream>>

\* no relay invocation is under way
NoRelay ==
    /\ handlerVersion = "handler@3"
    /\ req = NoIncoming
    /\ relayState = "none"
    /\ res = FreshResponse
    /\ backendCalls = << >>
    /\ backendResponse = NoBackendResponse
    /\ chunksRead = 0
    /\ stream = << >>

\* the legacy, streaming sendMessage (the variant that reads the answer as a
\* stream of chunks)
VARIABLES
    response,          \* what its fetch resolved to
    botResponse,       \* the text of the chunks decoded so far
    botMessageDiv,     \* the bot element it made for the answer (0: none yet)
    readCount          \* how many chunks its reader has yielded

legacyVars == <<response, botResponse, botMessageDiv, readCount>>

\* no legacy invocation is under way
NoLegacy ==
    /\ response = [s \in Sends |-> NoBackendResponse]
    /\ botResponse = [s \in Sends |-> ""]
    /\ botMessageDiv = [s \in Sends |-> 0]
    /\ readCount = [s \in Sends |-> 0]

vars == <<chat, loading, pc, message, messageText, aiMessageElement, af, net,
          lastRes, ready, returned, thrown, result, opts, sent,
          reads, calls, handlerVersion, req, relayState, res, backendCalls,
          backendResponse, chunksRead, stream, response, botResponse, botMessageDiv,
          readCount>>

\* the default of the parameter retries of apiFetch
DEFAULT_RETRIES == 1

\* rendered content: a template and the message interpolated into it
Html(tpl, head, status, detail) == [tpl |-> tpl, head |-> head, status |-> status, detail |-> detail]

THINKING == Html("html", "", 0, "II-yurist analiziruet vash zapros...")
WARMING_UP == Html("notice", "", 0, "Server gotovitsya k rabote... Pozhaluysta, poprobuyte cherez 10-15 sekund.")
FALLBACK == "Ne udalos poluchit otvet."

\* the red block of the logical-error branch and of the catch branch
ErrorBlock(head, status, detail) == Html("error", head, status, detail)

\* variant: the block always shows the fallback text
logicalErrorBlock_FallbackOnly(data) == ErrorBlock("", 0, FALLBACK)

\* the logical-error branch: ${data?.error?.message || fallback}
logicalErrorBlock(data) ==
    LET errorMessage == IF data.isNull THEN Undefined ELSE data.error_message IN
    ErrorBlock("", 0, IF Truthy(errorMessage) THEN errorMessage ELSE FALLBACK)

\* variant: the catch branch shows the fixed text and not error.message
caughtErrorBlock_FallbackOnly(error) == ErrorBlock("", 0, FALLBACK)

\* the catch branch: ${error.message || fallback}
caughtErrorBlock(error) ==
    ErrorBlock(error.head, error.status,
               IF error.head # "" \/ error.detail # "" THEN error.detail ELSE FALLBACK)

\* showLoading(): loadingOverlay.classList.add('show')
showLoading(overlay) == TRUE

\* variant: loadingOverlay.classList.toggle('show')
hideLoading_Toggle(overlay) == ~overlay

\* hideLoading(): loadingOverlay.classList.remove('show')
hideLoading(overlay) == FALSE

\* addMessage(sender, text): append one element (owner records the invocation)
addMessage(history, sender, owner, html) ==
    Append(history, [sender |-> sender, owner |-> owner, html |-> html])

\* variant: the answer is put into a new element after the placeholder
updateBotMessage_Appends(history, messageDiv, html) ==
    Append(history, [history[messageDiv] EXCEPT !.html = html])

\* updateBotMessage(messageDiv, text)
updateBotMessage(history, messageDiv, html) ==
    [history EXCEPT ![messageDiv].html = html]

FetchEvent(path, i) == [ev |-> "fetch", path |-> path, n |-> i]
TimerEvent(path, ms) == [ev |-> "setTimeout", path |-> path, n |-> ms]
SettleEvent(path, o) == [ev |-> o.kind, path |-> path, n |-> o.status]

\* fetch(url, opts) as the recorder of requests sees it
SentRequest(path, r) == [path |-> path, method |-> r.method, body |-> r.body]

ClientInit ==
    /\ chat = << >>
    /\ loading = FALSE
    /\ pc = [s \in Sends |-> "idle"]
    /\ message = [s \in Sends |-> Null]
    /\ messageText = [s \in Sends |-> ""]
    /\ aiMessageElement = [s \in Sends |-> 0]
    /\ af = [s \in Sends |-> NoFrame]
    /\ net = [s \in Sends |-> << >>]
    /\ lastRes = [s \in Sends |-> NoOutcome]
    /\ ready = [s \in Sends |-> Undefined]
    /\ returned = [s \in Sends |-> NoWrapper]
    /\ thrown = [s \in Sends |-> NoError]
    /\ result = [s \in Sends |-> ""]
    /\ opts = [s \in Sends |-> NoRequest]
    /\ sent = [s \in Sends |-> << >>]
    /\ reads = [s \in Sends |-> 0]
    /\ calls = [s \in Sends |-> << >>]
    /\ NoLegacy

Init == ClientInit /\ NoRelay

\* ------------------------------------------------------------- sendMessage
\* sendMessage(message) up to its first await. Invocations take the slots in
\* order; typed is what the textarea holds (clearing and resizing the
\* textarea afterwards changes nothing the dispatcher reads again).
sendMessage(s, arg, typed) ==
    /\ UNCHANGED relayVars
    /\ UNCHANGED legacyVars
    /\ pc[s] = "idle"
    /\ \A t \in Sends : t < s => pc[t] # "idle"
    /\ LET text == IF Truthy(arg) THEN arg ELSE Trim(typed)
           presetHtml == PresetLookup(text)
       IN
       /\ message' = [message EXCEPT ![s] = arg]
       /\ messageText' = [messageText EXCEPT ![s] = text]
       /\ IF text = ""
          THEN /\ pc' = [pc EXCEPT ![s] = "done"]
               /\ result' = [result EXCEPT ![s] = "empty"]
               /\ UNCHANGED <<chat, loading, aiMessageElement, af, net, opts, sent>>
          ELSE IF Truthy(presetHtml)
          THEN /\ chat' = addMessage(addMessage(chat, "user", s, Html("text", "", 0, text)),
                                     "bot", s, THINKING)
               /\ aiMessageElement' = [aiMessageElement EXCEPT ![s] = Len(chat) + 2]
               /\ net' = [net EXCEPT ![s] = Append(@, TimerEvent("", THINKING_DELAY))]
               /\ pc' = [pc EXCEPT ![s] = "thinking"]
               /\ UNCHANGED <<loading, af, result, opts, sent>>
          ELSE /\ chat' = addMessage(chat, "user", s, Html("text", "", 0, text))
               /\ loading' = showLoading(loading)
               /\ af' = [af EXCEPT ![s] = apiFetch("/health", DEFAULT_RETRIES)]
               /\ net' = [net EXCEPT ![s] = Append(@, FetchEvent("/health", 0))]
               /\ pc' = [pc EXCEPT ![s] = "health"]
               /\ opts' = [opts EXCEPT ![s] = Request("GET", NoBody)]
               /\ sent' = [sent EXCEPT ![s] =
                              Append(@, SentRequest("/health", Request("GET", NoBody)))]
               /\ UNCHANGED <<aiMessageElement, result>>
    /\ UNCHANGED <<lastRes, ready, returned, thrown, reads, calls>>

\* preset path: the 2000 ms timer fires
PresetTimeout(s) ==
    /\ UNCHANGED relayVars
    /\ UNCHANGED legacyVars
    /\ pc[s] = "thinking"
    /\ chat' = updateBotMessage(chat, aiMessageElement[s],
                                Html("html", "", 0, PresetLookup(messageText[s])))
    /\ pc' = [pc EXCEPT ![s] = "done"]
    /\ result' = [result EXCEPT ![s] = "preset"]
    /\ UNCHANGED <<loading, message, messageText, aiMessageElement, af, net,
                   lastRes, ready, returned, thrown, opts, sent, reads, calls>>

\* apiFetch: an attempt failed and another is left; the backoff timer is set
RetryLater(s, o, a) ==
    /\ a.next = "sleep"
    /\ af' = [af EXCEPT ![s].phase = "backoff"]
    /\ net' = [net EXCEPT ![s] = Append(Append(@, SettleEvent(af[s].path, o)),
                                        TimerEvent(af[s].path, a.delay))]
    /\ lastRes' = [lastRes EXCEPT ![s] = o]
    /\ reads' = [reads EXCEPT ![s] = BodyReads(o)]
    /\ UNCHANGED <<chat, loading, pc, message, messageText, aiMessageElement,
                   ready, returned, thrown, result, opts, sent, calls>>

\* apiFetch: the backoff timer fires, the loop goes round and fetches again
BackoffTimeout(s) ==
    /\ UNCHANGED relayVars
    /\ UNCHANGED legacyVars
    /\ af[s].phase = "backoff"
    /\ af' = [af EXCEPT ![s].i = @ + 1, ![s].phase = "fetch"]
    /\ net' = [net EXCEPT ![s] = Append(@, FetchEvent(af[s].path, af[s].i + 1))]
    /\ sent' = [sent EXCEPT ![s] = Append(@, SentRequest(af[s].path, opts[s]))]
    /\ reads' = [reads EXCEPT ![s] = 0]
    /\ UNCHANGED <<chat, loading, pc, message, messageText, aiMessageElement,
                   lastRes, ready, returned, thrown, result, opts, calls>>

\* the /health attempt settles; when apiFetch is over, checkServerReady
\* returns and sendMessage runs on to its next await or to its end
HealthSettles(s, o) ==
    /\ UNCHANGED relayVars
    /\ UNCHANGED legacyVars
    /\ pc[s] = "health"
    /\ af[s].phase = "fetch"
    /\ o \in Outcomes("/health")
    /\ LET a == Attempt(af[s], o)
           r == checkServerReady(a)
       IN
       \/ RetryLater(s, o, a)
       \/ /\ a.next # "sleep"
          /\ lastRes' = [lastRes EXCEPT ![s] = o]
          /\ returned' = [returned EXCEPT ![s] = a.wrapper]
          /\ thrown' = [thrown EXCEPT ![s] = a.error]
          /\ ready' = [ready EXCEPT ![s] = r]
          /\ calls' = [calls EXCEPT ![s] =
                          IF a.next = "return" THEN Append(@, AccessorCall(a.wrapper, "json"))
                          ELSE @]
          /\ IF ~Truthy(r)
             THEN /\ chat' = addMessage(chat, "bot", s, WARMING_UP)
                  /\ loading' = hideLoading(hideLoading(loading))
                  /\ af' = [af EXCEPT ![s] = NoFrame]
                  /\ pc' = [pc EXCEPT ![s] = "done"]
                  /\ result' = [result EXCEPT ![s] = "notready"]
                  /\ net' = [net EXCEPT ![s] = Append(@, SettleEvent("/health", o))]
                  /\ reads' = [reads EXCEPT ![s] = BodyReads(o)]
                  /\ UNCHANGED <<opts, sent>>
             ELSE /\ af' = [af EXCEPT ![s] = apiFetch("/ask", DEFAULT_RETRIES)]
                  /\ net' = [net EXCEPT ![s] = Append(Append(@, SettleEvent("/health", o)),
                                                      FetchEvent("/ask", 0))]
                  /\ opts' = [opts EXCEPT ![s] = Request("POST", askBody(Trim(messageText[s])))]
                  /\ sent' = [sent EXCEPT ![s] =
                        Append(@, SentRequest("/ask",
                                     Request("POST", askBody(Trim(messageText[s])))))]
                  /\ reads' = [reads EXCEPT ![s] = 0]
                  /\ pc' = [pc EXCEPT ![s] = "ask"]
                  /\ UNCHANGED <<chat, loading, result>>
          /\ UNCHANGED <<message, messageText, aiMessageElement>>

\* the /ask attempt settles; when apiFetch is over, sendMessage runs to its end
AskSettles(s, o) ==
    /\ UNCHANGED relayVars
    /\ UNCHANGED legacyVars
    /\ pc[s] = "ask"
    /\ af[s].phase = "fetch"
    /\ o \in Outcomes("/ask")
    /\ LET a == Attempt(af[s], o)
           j == WrapperJson(a.wrapper)
           data == j.value
           dataOk == IF data.isNull THEN Undefined ELSE data.ok
           caught == IF a.next = "throw" THEN a.error ELSE JsonSyntaxError
       IN
       \/ RetryLater(s, o, a)
       \/ /\ a.next # "sleep"
          /\ lastRes' = [lastRes EXCEPT ![s] = o]
          /\ returned' = [returned EXCEPT ![s] = a.wrapper]
          /\ af' = [af EXCEPT ![s] = NoFrame]
          /\ pc' = [pc EXCEPT ![s] = "done"]
          /\ loading' = hideLoading(loading)
          /\ IF a.next = "throw" \/ j.throws
             THEN /\ thrown' = [thrown EXCEPT ![s] = caught]
                  /\ chat' = addMessage(chat, "bot", s, caughtErrorBlock(caught))
                  /\ result' = [result EXCEPT ![s] = "caught"]
             ELSE IF ~Truthy(dataOk)
             THEN /\ thrown' = [thrown EXCEPT ![s] = NoError]
                  /\ chat' = addMessage(chat, "bot", s, logicalErrorBlock(data))
                  /\ result' = [result EXCEPT ![s] = "logical"]
             ELSE /\ thrown' = [thrown EXCEPT ![s] = NoError]
                  /\ chat' = addMessage(chat, "bot", s, Html("html", "", 0, data.answer_html))
                  /\ result' = [result EXCEPT ![s] = "answer"]
          /\ net' = [net EXCEPT ![s] = Append(@, SettleEvent("/ask", o))]
          /\ reads' = [reads EXCEPT ![s] = BodyReads(o)]
          /\ calls' = [calls EXCEPT ![s] =
                          IF a.next = "return" THEN Append(@, AccessorCall(a.wrapper, "json"))
                          ELSE @]
          /\ UNCHANGED <<message, messageText, aiMessageElement, ready, opts, sent>>

\* ------------------------------------------------ apiFetch called directly
\* apiFetch(path, {}, retries) awaited by a caller that only keeps the result
DirectSettles(s, o) ==
    /\ UNCHANGED relayVars
    /\ UNCHANGED legacyVars
    /\ pc[s] = "direct"
    /\ af[s].phase = "fetch"
    /\ o \in Outcomes(af[s].path)
    /\ LET a == Attempt(af[s], o) IN
       \/ RetryLater(s, o, a)
       \/ /\ a.next # "sleep"
          /\ lastRes' = [lastRes EXCEPT ![s] = o]
          /\ returned' = [returned EXCEPT ![s] = a.wrapper]
          /\ thrown' = [thrown EXCEPT ![s] = a.error]
          /\ net' = [net EXCEPT ![s] = Append(@, SettleEvent(af[s].path, o))]
          /\ af' = [af EXCEPT ![s].phase = "none"]
          /\ pc' = [pc EXCEPT ![s] = IF a.next = "return" THEN "returned" ELSE "thrown"]
          /\ reads' = [reads EXCEPT ![s] = BodyReads(o)]
          /\ UNCHANGED <<chat, loading, message, messageText, aiMessageElement,
                         ready, result, opts, sent, calls>>

\* the caller calls text() or json() on the wrapper it was given
CallAccessor(s, fn) ==
    /\ UNCHANGED relayVars
    /\ UNCHANGED legacyVars
    /\ pc[s] = "returned"
    /\ Len(calls[s]) < MaxAccessorCalls
    /\ calls' = [calls EXCEPT ![s] = Append(@, AccessorCall(returned[s], fn))]
    /\ reads' = [reads EXCEPT ![s] = @ + AccessorCall(returned[s], fn).reads]
    /\ UNCHANGED <<chat, loading, pc, message, messageText, aiMessageElement, af, net,
                   lastRes, ready, returned, thrown, result, opts, sent>>

\* the bodies a direct caller gives: none, a string, an object, and an object
\* that cannot be serialized
DirectBodies ==
    {NoBody, StringBody(<<"question=", NOVEL>>), ObjectBody(NOVEL, sessionId, FALSE),
     ObjectBody(NOVEL, Undefined, TRUE)}
DirectMethod(b) == IF b.type = "undefined" THEN "GET" ELSE "POST"

InitFetch ==
    /\ chat = << >>
    /\ loading = FALSE
    /\ pc = [s \in Sends |-> IF s = 1 THEN "direct" ELSE "idle"]
    /\ message = [s \in Sends |-> Null]
    /\ messageText = [s \in Sends |-> ""]
    /\ aiMessageElement = [s \in Sends |-> 0]
    /\ \E p \in Paths, r \in 0..MaxRetries, b \in DirectBodies :
          /\ af = [s \in Sends |-> IF s = 1 THEN apiFetch(p, r) ELSE NoFrame]
          /\ net = [s \in Sends |-> IF s = 1 THEN <<FetchEvent(p, 0)>> ELSE << >>]
          /\ opts = [s \in Sends |-> IF s = 1 THEN Request(DirectMethod(b), b) ELSE NoRequest]
          /\ sent = [s \in Sends |->
                      IF s = 1 THEN <<SentRequest(p, Request(DirectMethod(b), b))>> ELSE << >>]
    /\ reads = [s \in Sends |-> 0]
    /\ calls = [s \in Sends |-> << >>]
    /\ lastRes = [s \in Sends |-> NoOutcome]
    /\ ready = [s \in Sends |-> Undefined]
    /\ returned = [s \in Sends |-> NoWrapper]
    /\ thrown = [s \in Sends |-> NoError]
    /\ result = [s \in Sends |-> ""]
    /\ NoRelay
    /\ NoLegacy

NextFetch ==
    \/ \E s \in Sends, o \in Outcomes("/health") \cup Outcomes("/ask") : DirectSettles(s, o)
    \/ \E s \in Sends : BackoffTimeout(s)
    \/ \E s \in Sends, fn \in {"text", "json"} : CallAccessor(s, fn)

FetchSpec == InitFetch /\ [][NextFetch]_vars

Next ==
    \/ \E s \in 1..MaxSends, arg \in MessageArgs, typed \in InputValues :
          sendMessage(s, arg, typed)
    \/ \E s \in Sends : PresetTimeout(s)
    \/ \E s \in Sends, o \in Outcomes("/health") : HealthSettles(s, o)
    \/ \E s \in Sends, o \in Outcomes("/ask") : AskSettles(s, o)
    \/ \E s \in Sends : BackoffTimeout(s)

Spec == Init /\ [][Next]_vars

\* ------------------------------------------------------- overlapping sends
\* sendMessage started again before earlier invocations have resolved: the
\* messages are novel questions, and a call is rejected or answered with
\* status 200 and a JSON body
OverlapOutcomes(path) ==
    {o \in Outcomes(path) :
        \/ o.kind = "reject"
        \/ /\ o.kind = "response" /\ o.status = 200 /\ o.ct = CT_JSON
           /\ o.text \in {B_READY, B_NOT_READY, B_ANSWER}}

NextOverlap ==
    \/ \E s \in 1..MaxOverlap : sendMessage(s, NOVEL, "")
    \/ \E s \in Sends, o \in OverlapOutcomes("/health") : HealthSettles(s, o)
    \/ \E s \in Sends, o \in OverlapOutcomes("/ask") : AskSettles(s, o)
    \/ \E s \in Sends : BackoffTimeout(s)

OverlapSpec == Init /\ [][NextOverlap]_vars

\* ------------------------------------------------ legacy sendMessage
\* the error block of the legacy catch branch
LEGACY_ERROR ==
    Html("error", "", 0,
         "Izvinite, ne udalos poluchit otvet. Pozhaluysta, poprobuyte eshche raz ili proverte podklyuchenie k internetu.")

\* JSON.stringify({ message: messageText, session_id: sessionId })
legacyBody(text) ==
    StringBody(<<"{", "\"message\":", text, ",", "\"session_id\":", sessionId, "}">>)

\* the responses the legacy fetch resolves to
LegacyResponses == {b \in BackendResponses : b.ct = ""}

\* the legacy catch branch
legacyCatch(s) ==
    /\ loading' = hideLoading(loading)
    /\ chat' = addMessage(chat, "bot", s, LEGACY_ERROR)
    /\ pc' = [pc EXCEPT ![s] = "done"]
    /\ result' = [result EXCEPT ![s] = "caught"]

\* sendMessage(message) of the legacy variant, up to await fetch
legacySendMessage(s, arg, typed) ==
    /\ UNCHANGED relayVars
    /\ pc[s] = "idle"
    /\ \A t \in Sends : t < s => pc[t] # "idle"
    /\ LET text == IF Truthy(arg) THEN arg ELSE Trim(typed) IN
       /\ message' = [message EXCEPT ![s] = arg]
       /\ messageText' = [messageText EXCEPT ![s] = text]
       /\ IF text = ""
          THEN /\ pc' = [pc EXCEPT ![s] = "done"]
               /\ result' = [result EXCEPT ![s] = "empty"]
               /\ UNCHANGED <<chat, loading, net, sent>>
          ELSE /\ chat' = addMessage(chat, "user", s, Html("text", "", 0, text))
               /\ loading' = showLoading(loading)
               /\ net' = [net EXCEPT ![s] = Append(@, FetchEvent("/ask", 0))]
               /\ sent' = [sent EXCEPT ![s] =
                     Append(@, [path |-> "/ask", method |-> "POST", body |-> legacyBody(text)])]
               /\ pc' = [pc EXCEPT ![s] = "legacyFetch"]
               /\ UNCHANGED result
    /\ UNCHANGED <<aiMessageElement, af, lastRes, ready, returned, thrown, opts, reads, calls>>
    /\ UNCHANGED legacyVars

\* await fetch rejects: the catch branch
LegacyFetchRejects(s) ==
    /\ UNCHANGED relayVars
    /\ pc[s] = "legacyFetch"
    /\ legacyCatch(s)
    /\ net' = [net EXCEPT ![s] = Append(@, [ev |-> "reject", path |-> "/ask", n |-> 0])]
    /\ UNCHANGED <<message, messageText, aiMessageElement, af, lastRes, ready, returned,
                   thrown, opts, sent, reads, calls>>
    /\ UNCHANGED legacyVars

\* await fetch resolves: the overlay is hidden; a status that is not OK and a
\* response without a body (response.body is null) both end in the catch
\* branch, otherwise the first read is awaited
LegacyFetchResolves(s, b) ==
    /\ UNCHANGED relayVars
    /\ pc[s] = "legacyFetch"
    /\ response' = [response EXCEPT ![s] = b]
    /\ net' = [net EXCEPT ![s] = Append(@, [ev |-> "response", path |-> "/ask", n |-> b.status])]
    /\ IF ~IsOk(b.status) \/ ~b.hasBody
       THEN /\ loading' = hideLoading(hideLoading(loading))
            /\ chat' = addMessage(chat, "bot", s, LEGACY_ERROR)
            /\ pc' = [pc EXCEPT ![s] = "done"]
            /\ result' = [result EXCEPT ![s] = "caught"]
       ELSE /\ loading' = hideLoading(loading)
            /\ pc' = [pc EXCEPT ![s] = "legacyRead"]
            /\ UNCHANGED <<chat, result>>
    /\ UNCHANGED <<message, messageText, aiMessageElement, af, lastRes, ready, returned,
                   thrown, opts, sent, reads, calls>>
    /\ UNCHANGED <<botResponse, botMessageDiv, readCount>>

\* await reader.read() yields a chunk: it is decoded, added to botResponse,
\* and the bot element is made or updated
LegacyReadChunk(s) ==
    /\ UNCHANGED relayVars
    /\ pc[s] = "legacyRead"
    /\ readCount[s] < Len(response[s].chunks)
    /\ LET text == botResponse[s] \o response[s].chunks[readCount[s] + 1] IN
       /\ botResponse' = [botResponse EXCEPT ![s] = text]
       /\ IF botMessageDiv[s] = 0
          THEN /\ chat' = addMessage(chat, "bot", s, Html("html", "", 0, text))
               /\ botMessageDiv' = [botMessageDiv EXCEPT ![s] = Len(chat) + 1]
          ELSE /\ chat' = updateBotMessage(chat, botMessageDiv[s], Html("html", "", 0, text))
               /\ UNCHANGED botMessageDiv
    /\ readCount' = [readCount EXCEPT ![s] = @ + 1]
    /\ UNCHANGED <<loading, pc, message, messageText, aiMessageElement, af, net, lastRes,
                   ready, returned, thrown, result, opts, sent, reads, calls>>
    /\ UNCHANGED response

\* await reader.read() yields done: the loop and the function end
LegacyReadDone(s) ==
    /\ UNCHANGED relayVars
    /\ pc[s] = "legacyRead"
    /\ readCount[s] = Len(response[s].chunks)
    /\ pc' = [pc EXCEPT ![s] = "done"]
    /\ result' = [result EXCEPT ![s] = "streamed"]
    /\ UNCHANGED <<chat, loading, message, messageText, aiMessageElement, af, net, lastRes,
                   ready, returned, thrown, opts, sent, reads, calls>>
    /\ UNCHANGED legacyVars

\* await reader.read() rejects: the catch branch
LegacyReadRejects(s) ==
    /\ UNCHANGED relayVars
    /\ pc[s] = "legacyRead"
    /\ legacyCatch(s)
    /\ net' = [net EXCEPT ![s] = Append(@, [ev |-> "unreadable", path |-> "/ask",
                                            n |-> response[s].status])]
    /\ UNCHANGED <<message, messageText, aiMessageElement, af, lastRes, ready, returned,
                   thrown, opts, sent, reads, calls>>
    /\ UNCHANGED legacyVars

NextLegacy ==
    \/ \E s \in 1..MaxSends, arg \in {NOVEL, " Chto delat pri DTP?", Null},
          typed \in InputValues : legacySendMessage(s, arg, typed)
    \/ \E s \in Sends : LegacyFetchRejects(s)
    \/ \E s \in Sends, b \in LegacyResponses : LegacyFetchResolves(s, b)
    \/ \E s \in Sends : LegacyReadChunk(s)
    \/ \E s \in Sends : LegacyReadDone(s)
    \/ \E s \in Sends : LegacyReadRejects(s)

LegacySpec == Init /\ [][NextLegacy]_vars

\* ------------------------------------------------- Edge Relay invocation
\* handler(req, res) up to its first await, or to its return for a preflight
handler ==
    /\ relayState = "receiving"
    /\ IF IsPreflight(req)
       THEN /\ res' = preflight(handlerVersion, res)
            /\ relayState' = "preflight"
            /\ stream' = Append(stream, "end")
            /\ UNCHANGED backendCalls
       ELSE /\ backendCalls' = Append(backendCalls, BackendCall(handlerVersion, req))
            /\ relayState' = "forwarding"
            /\ UNCHANGED <<res, stream>>
    /\ UNCHANGED <<handlerVersion, req, backendResponse, chunksRead>>
    /\ UNCHANGED clientVars
    /\ UNCHANGED legacyVars

\* await fetch(url, fetchOptions) rejects: the catch block answers
FetchRejects ==
    /\ relayState = "forwarding"
    /\ res' = proxyError(res, "fetch failed")
    /\ relayState' = "error"
    /\ stream' = Append(stream, "end")
    /\ UNCHANGED <<handlerVersion, req, backendCalls, backendResponse, chunksRead>>
    /\ UNCHANGED clientVars
    /\ UNCHANGED legacyVars

\* await fetch(url, fetchOptions) resolves: headers and status are set; with
\* a body the handler waits for the first read, without one it ends
FetchResolves(b) ==
    /\ relayState = "forwarding"
    /\ backendResponse' = b
    /\ IF b.hasBody
       THEN /\ res' = forwardHead(res, b)
            /\ relayState' = "streaming"
            /\ stream' = Append(stream, "read")
       ELSE /\ res' = resEnd(forwardHead(res, b))
            /\ relayState' = "done"
            /\ stream' = Append(stream, "end")
    /\ UNCHANGED <<handlerVersion, req, backendCalls, chunksRead>>
    /\ UNCHANGED clientVars
    /\ UNCHANGED legacyVars

\* await reader.read() yields a chunk, which is written
ReadChunk ==
    /\ relayState = "streaming"
    /\ chunksRead < Len(backendResponse.chunks)
    /\ res' = resWrite(res, backendResponse.chunks[chunksRead + 1])
    /\ chunksRead' = chunksRead + 1
    /\ stream' = stream \o <<"value", "write", "read">>
    /\ UNCHANGED <<handlerVersion, req, relayState, backendCalls, backendResponse>>
    /\ UNCHANGED clientVars
    /\ UNCHANGED legacyVars

\* await reader.read() yields done: the response is ended
ReadDone ==
    /\ relayState = "streaming"
    /\ chunksRead = Len(backendResponse.chunks)
    /\ res' = resEnd(res)
    /\ relayState' = "done"
    /\ stream' = stream \o <<"done", "end">>
    /\ UNCHANGED <<handlerVersion, req, backendCalls, backendResponse, chunksRead>>
    /\ UNCHANGED clientVars
    /\ UNCHANGED legacyVars

\* await reader.read() rejects (the backend connection broke): the catch
\* block runs; once the head has gone out its res.setHeader throws
\* ERR_HTTP_HEADERS_SENT and the handler's promise rejects
ReadRejects ==
    /\ relayState = "streaming"
    /\ IF res.headersSent
       THEN /\ relayState' = "rejected"
            /\ stream' = Append(stream, "fail")
            /\ UNCHANGED res
       ELSE /\ res' = proxyError(res, "terminated")
            /\ relayState' = "error"
            /\ stream' = stream \o <<"fail", "end">>
    /\ UNCHANGED <<handlerVersion, req, backendCalls, backendResponse, chunksRead>>
    /\ UNCHANGED clientVars
    /\ UNCHANGED legacyVars

InitRelay ==
    /\ ClientInit
    /\ handlerVersion \in Handlers
    /\ req \in Incomings
    /\ relayState = "receiving"
    /\ res = FreshResponse
    /\ backendCalls = << >>
    /\ backendResponse = NoBackendResponse
    /\ chunksRead = 0
    /\ stream = << >>

NextRelay ==
    \/ handler
    \/ FetchRejects
    \/ \E b \in BackendResponses : FetchResolves(b)
    \/ ReadChunk
    \/ ReadDone
    \/ ReadRejects

RelaySpec == InitRelay /\ [][NextRelay]_vars

\* ------------------------------------------------------- reading the log
IsSettle(e) == e.ev \in {"reject", "unreadable", "response"}

\* the attempt the event settles did not yield a readable 2xx response
IsFailure(e) == e.ev \in {"reject", "unreadable"} \/ (e.ev = "response" /\ ~IsOk(e.n))

FetchCount(log, path) == Len(SelectSeq(log, LAMBDA e : e.ev = "fetch" /\ e.path = path))

\* apiFetch calls: each starts with the fetch of loop index 0
DispatchCount(log, path) ==
    Len(SelectSeq(log, LAMBDA e : e.ev = "fetch" /\ e.path = path /\ e.n = 0))

\* the elements an invocation has appended to the chat
Elements(s, sender) == SelectSeq(chat, LAMBDA m : m.owner = s /\ m.sender = sender)

Started(s) == pc[s] # "idle"
LocalPath(s) == pc[s] = "thinking" \/ result[s] = "preset"
RemotePath(s) == net[s] # << >> /\ net[s][1] = FetchEvent("/health", 0)
HealthOver(s) == pc[s] = "ask" \/ result[s] \in {"notready", "logical", "answer", "caught"}

\* ------------------------------------------------------------------ claims

\* C1: a message that is a key of PRESET_ANSWERS causes no fetch at all: the
\* only thing the invocation schedules is the 2000 ms timer; until it fires
\* the bot element holds the placeholder, and once it has fired that same
\* element holds exactly the HTML stored under the key.
C1_PresetNeverCallsNetwork ==
    \A s \in Sends :
        (Started(s) /\ messageText[s] \in DOMAIN PRESET_ANSWERS) =>
            /\ pc[s] \in {"thinking", "done"}
            /\ net[s] = <<TimerEvent("", 2000)>>
            /\ aiMessageElement[s] \in 1..Len(chat)
            /\ chat[aiMessageElement[s]].sender = "bot"
            /\ chat[aiMessageElement[s]].owner = s
            /\ pc[s] = "thinking" => chat[aiMessageElement[s]].html = THINKING
            /\ pc[s] = "done" =>
                  /\ result[s] = "preset"
                  /\ chat[aiMessageElement[s]].html =
                        Html("html", "", 0, PRESET_ANSWERS[messageText[s]])

C1_Witness ==
    \E s \in Sends :
        /\ pc[s] = "done"
        /\ messageText[s] = K_UVOLITSYA
        /\ chat[aiMessageElement[s]].html = Html("html", "", 0, PRESET_ANSWERS[K_UVOLITSYA])

\* C2: every non-empty message that is not in the table makes sendMessage
\* probe /health first; a fetch of /ask comes only after a /health response,
\* and when the probe says not ready there is no fetch of /ask, the
\* invocation is over and its one bot element is the warming-up notice.
C2_ProbeBeforeAsk ==
    \A s \in Sends :
        (Started(s) /\ messageText[s] # "" /\ messageText[s] \notin DOMAIN PRESET_ANSWERS) =>
            /\ RemotePath(s)
            /\ \A k \in 1..Len(net[s]) :
                  (net[s][k].ev = "fetch" /\ net[s][k].path = "/ask") =>
                      \E j \in 1..(k - 1) :
                          /\ net[s][j].path = "/health"
                          /\ net[s][j].ev = "response"
                          /\ IsOk(net[s][j].n)
            /\ (HealthOver(s) /\ ~Truthy(ready[s])) =>
                  /\ FetchCount(net[s], "/ask") = 0
                  /\ pc[s] = "done"
                  /\ Len(Elements(s, "bot")) = 1
                  /\ Elements(s, "bot")[1].html = WARMING_UP

\* C3: the local path is taken exactly by the messages that are keys of the
\* table; every other non-empty message takes the remote path.
C3_ExactMatchOnly ==
    \A s \in Sends :
        (Started(s) /\ messageText[s] # "") =>
            /\ LocalPath(s) <=> messageText[s] \in DOMAIN PRESET_ANSWERS
            /\ messageText[s] \notin DOMAIN PRESET_ANSWERS => RemotePath(s)

\* C4 as stated: one sendMessage issues at most one fetch of /ask.
C4_AtMostOneAskFetch ==
    \A s \in Sends : FetchCount(net[s], "/ask") <= 1

\* C4 amended: one sendMessage calls apiFetch("/ask") at most once, which
\* issues at most two fetches of /ask, the second one only after the first
\* attempt has failed and the backoff timer has run.
C4_AtMostOneAskDispatch ==
    \A s \in Sends :
        /\ DispatchCount(net[s], "/ask") <= 1
        /\ FetchCount(net[s], "/ask") <= 2
        /\ \A k \in 1..Len(net[s]) :
              (net[s][k] = FetchEvent("/ask", 1)) =>
                  /\ k > 3
                  /\ net[s][k - 1].ev = "setTimeout"
                  /\ net[s][k - 2].path = "/ask"
                  /\ IsFailure(net[s][k - 2])
                  /\ net[s][k - 3] = FetchEvent("/ask", 0)

C4_Witness ==
    \E s \in Sends : pc[s] = "done" /\ FetchCount(net[s], "/ask") = 2

\* the apiFetch call of s is over
CallOver(s) == pc[s] \in {"returned", "thrown"}

\* C5: when every attempt of apiFetch(path, opts, r) fails (fetch rejects,
\* the body cannot be read, or the status is not 2xx), fetch is called
\* exactly r + 1 times and then apiFetch throws.
C5_AllFailingMakesRPlusOneCalls ==
    \A s \in Sends :
        (pc[s] \in {"direct", "returned", "thrown"}
            /\ \A k \in 1..Len(net[s]) : IsSettle(net[s][k]) => IsFailure(net[s][k])) =>
            /\ FetchCount(net[s], af[s].path) <= af[s].retries + 1
            /\ CallOver(s) =>
                  /\ pc[s] = "thrown"
                  /\ thrown[s] # NoError
                  /\ FetchCount(net[s], af[s].path) = af[s].retries + 1

C5_Witness ==
    \E s \in Sends :
        /\ pc[s] = "thrown"
        /\ af[s].retries = 2
        /\ FetchCount(net[s], af[s].path) = 3
        /\ \E k \in 1..Len(net[s]) : net[s][k].ev = "reject"
        /\ \E k \in 1..Len(net[s]) : net[s][k].ev = "response" /\ net[s][k].n = 503

\* C6 as stated: the delay waited before attempt number a (counted from 1)
\* is 800 * a.
C6_DelayBeforeAttemptIsBaseTimesAttempt ==
    \A s \in Sends :
        \A k \in 2..Len(net[s]) :
            (net[s][k].ev = "fetch" /\ net[s][k].n >= 1) =>
                net[s][k - 1] = TimerEvent(net[s][k].path, 800 * (net[s][k].n + 1))

\* C6 amended: the first attempt starts without a delay; the delay waited
\* after failed attempt number a, before attempt a + 1, is 800 * a with no
\* jitter. Attempts are sequential: a retry is fetched only when the
\* previous attempt has failed and its backoff timer has run, and no fetch is
\* issued while another one of the same call is outstanding.
C6_DelayAfterAttemptIsBaseTimesAttempt ==
    \A s \in Sends :
        pc[s] \in {"direct", "returned", "thrown"} =>
            /\ net[s][1] = FetchEvent(af[s].path, 0)
            /\ \A k \in 2..Len(net[s]) :
                  /\ net[s][k].ev = "fetch" =>
                        /\ net[s][k].n >= 1
                        /\ k > 3
                        /\ net[s][k - 1] = TimerEvent(net[s][k].path, 800 * net[s][k].n)
                        /\ IsFailure(net[s][k - 2])
                        /\ net[s][k - 3] = FetchEvent(net[s][k].path, net[s][k].n - 1)
                  /\ net[s][k - 1].ev = "fetch" => IsSettle(net[s][k])

C6_Witness ==
    \E s \in Sends :
        /\ pc[s] = "thrown"
        /\ \E k \in 1..Len(net[s]) : net[s][k] = TimerEvent(af[s].path, 2400)
        /\ \E k \in 1..Len(net[s]) : net[s][k] = FetchEvent(af[s].path, 3)

\* C7 as stated: never more than r + 1 fetches, and no fetch after an attempt
\* for which fetch returned a 2xx status; the call returns that attempt's
\* wrapper.
C7_NoCallAfter2xxStatus ==
    \A s \in Sends :
        pc[s] \in {"direct", "returned", "thrown"} =>
            /\ FetchCount(net[s], af[s].path) <= af[s].retries + 1
            /\ \A j \in 1..Len(net[s]) :
                  (net[s][j].ev \in {"response", "unreadable"} /\ IsOk(net[s][j].n)) =>
                      /\ j = Len(net[s])
                      /\ pc[s] = "returned"

\* C7 amended: never more than r + 1 fetches, and no fetch after the first
\* attempt that returns a 2xx status and whose body text is read; the call
\* returns the wrapper of that attempt.
C7_NoCallAfterReadable2xx ==
    \A s \in Sends :
        pc[s] \in {"direct", "returned", "thrown"} =>
            /\ FetchCount(net[s], af[s].path) <= af[s].retries + 1
            /\ \A j \in 1..Len(net[s]) :
                  (net[s][j].ev = "response" /\ IsOk(net[s][j].n)) =>
                      /\ j = Len(net[s])
                      /\ pc[s] = "returned"
                      /\ returned[s].ok
                      /\ returned[s].status = net[s][j].n
                      /\ returned[s].text = lastRes[s].text
                      /\ returned[s].ct = lastRes[s].ct

C7_Witness ==
    \E s \in Sends :
        /\ pc[s] = "returned"
        /\ af[s].retries = 3
        /\ FetchCount(net[s], af[s].path) = 2
        /\ returned[s].text = B_ANSWER

\* C8 as stated: when the final attempt yields a non-2xx status or a
\* transport failure, the error thrown carries the HTTP status and the body
\* text of that attempt; a wrapper is returned for 2xx responses only.
C8_ErrorCarriesStatusAndBody ==
    \A s \in Sends :
        /\ pc[s] = "thrown" =>
              /\ thrown[s].head = "HTTP"
              /\ thrown[s].status = lastRes[s].status
              /\ thrown[s].status >= 100
              /\ thrown[s].detail = lastRes[s].text
        /\ pc[s] = "returned" => IsOk(returned[s].status)

\* C8 amended: when the final attempt yields a non-2xx status and its body
\* text is read, the Error thrown carries that status and that body text
\* (the status text when the body is empty); when the final attempt fails at
\* transport level (fetch rejects, or the body cannot be read) the transport's
\* own error is thrown, which carries no HTTP status and no body text; a
\* wrapper is returned for 2xx responses only.
C8_HttpErrorCarriesStatusAndBody ==
    \A s \in Sends :
        /\ pc[s] = "thrown" =>
              /\ lastRes[s].kind = "response" =>
                    /\ ~IsOk(lastRes[s].status)
                    /\ thrown[s].name = "Error"
                    /\ thrown[s].head = "HTTP"
                    /\ thrown[s].status = lastRes[s].status
                    /\ lastRes[s].text # "" => thrown[s].detail = lastRes[s].text
                    /\ lastRes[s].text = "" => thrown[s].detail = "Service Unavailable"
              /\ lastRes[s].kind = "reject" =>
                    thrown[s] = [name |-> "TypeError", head |-> "", status |-> 0,
                                 detail |-> "Failed to fetch"]
              /\ lastRes[s].kind = "unreadable" =>
                    thrown[s] = [name |-> "TypeError", head |-> "", status |-> 0,
                                 detail |-> "network error"]
              /\ lastRes[s].kind # "none"
        /\ pc[s] = "returned" =>
              /\ IsOk(returned[s].status)
              /\ lastRes[s].kind = "response"
              /\ lastRes[s].status = returned[s].status

C8_Witness ==
    \E s \in Sends :
        /\ pc[s] = "thrown"
        /\ FetchCount(net[s], af[s].path) = 2
        /\ lastRes[s].kind = "response"
        /\ lastRes[s].text = B_HTML
        /\ thrown[s].detail = B_HTML
        /\ thrown[s].status = 503

\* apiFetch("/ask") has returned a wrapper to sendMessage, which is over
AskReturned(s) ==
    /\ result[s] \in {"logical", "answer", "caught"}
    /\ lastRes[s].kind = "response"
    /\ IsOk(lastRes[s].status)

\* C9: a 2xx response of /ask whose JSON body has no true ok flag is not
\* retried: the response is the last thing in the log of the invocation,
\* which is over with nothing in flight, and its one bot element is the error
\* block with the error.message of the body, or the fallback text when the
\* body has none; with ok = true the element is answer_html.
C9_LogicalErrorNotRetried ==
    \A s \in Sends :
        (AskReturned(s) /\ ~(lastRes[s].ct = CT_JSON /\ lastRes[s].text = B_HTML)) =>
            /\ pc[s] = "done"
            /\ af[s].phase = "none"
            /\ net[s][Len(net[s])] = [ev |-> "response", path |-> "/ask", n |-> lastRes[s].status]
            /\ Len(Elements(s, "bot")) = 1
            /\ (lastRes[s].ct = CT_JSON /\ lastRes[s].text = B_ANSWER) =>
                  /\ result[s] = "answer"
                  /\ Elements(s, "bot")[1].html = Html("html", "", 0, "<p>Otvet</p>")
            /\ (lastRes[s].ct = CT_JSON /\ lastRes[s].text = B_ERROR) =>
                  /\ result[s] = "logical"
                  /\ Elements(s, "bot")[1].html = Html("error", "", 0, "Limit zaprosov")
            /\ (lastRes[s].ct # CT_JSON \/ lastRes[s].text \in {B_ERROR_BARE, B_NULL, ""}) =>
                  /\ result[s] = "logical"
                  /\ Elements(s, "bot")[1].html = Html("error", "", 0, "Ne udalos poluchit otvet.")

C9_Witness ==
    \E s \in Sends :
        /\ result[s] = "logical"
        /\ lastRes[s].text = B_ERROR
        /\ FetchCount(net[s], "/ask") = 1
        /\ Elements(s, "bot")[1].html.detail = "Limit zaprosov"

\* checkServerReady has just returned to sendMessage
JustProbed(s) ==
    \/ result[s] = "notready"
    \/ pc[s] = "ask" /\ net[s][Len(net[s])] = FetchEvent("/ask", 0)

\* C10: whatever the /health probe comes to, checkServerReady returns a
\* boolean, and it returns true only when the probe got a 2xx JSON response
\* whose index_ready is true.
C10_ReadyIsBoolean ==
    \A s \in Sends :
        JustProbed(s) =>
            /\ IsBoolean(ready[s])
            /\ ready[s] = JsTrue =>
                  /\ lastRes[s].kind = "response"
                  /\ IsOk(lastRes[s].status)
                  /\ lastRes[s].ct = CT_JSON
                  /\ lastRes[s].text = B_READY

\* a remote-path invocation is awaiting the probe or the /ask call
InFlight(s) == pc[s] \in {"health", "ask"}

\* C11: once an invocation of sendMessage has finished, by whichever exit, and
\* no invocation is awaiting the probe or the /ask call, the loading overlay
\* is hidden.
C11_LoadingClearedOnEveryExit ==
    ((\E s \in Sends : pc[s] = "done") /\ (\A s \in Sends : ~InFlight(s))) => ~loading

C11_Witness ==
    \E s \in Sends :
        /\ pc[s] = "done"
        /\ result[s] = "notready"
        /\ \A t \in Sends : ~InFlight(t)
        /\ ~loading

Direct(s) == pc[s] \in {"direct", "returned", "thrown"}

\* C13: a body that is not a string is serialized exactly once before the
\* first transmission and every attempt sends that same string; a body that
\* cannot be serialized makes apiFetch fail without any fetch call.
C13_SerializedOnceOrFailFast ==
    \A s \in Sends : (Direct(s) /\ opts[s].given.type = "object") =>
        IF JSONStringify(opts[s].given).throws
        THEN sent[s] = << >> /\ pc[s] = "thrown"
        ELSE /\ opts[s].assigned = 1
             /\ \A k \in 1..Len(sent[s]) :
                   sent[s][k].body = JSONStringify(opts[s].given).value

\* C14 as claimed: the body is read at most once and no call of text() or
\* json() on a returned wrapper fails.
C14_AccessorsNeverFail ==
    \A s \in Sends : pc[s] = "returned" =>
        /\ reads[s] <= 1
        /\ \A k \in 1..Len(calls[s]) : ~calls[s][k].throws

\* C14: for a returned wrapper the body was read exactly once; text() never
\* fails and returns the buffered text; json() fails exactly when the content
\* type says JSON and the buffered text is not JSON, and otherwise returns
\* the parse of the buffered text ({} for an empty one) or { raw: text }.
C14_AccessorsServeBufferedText ==
    \A s \in Sends : pc[s] = "returned" =>
        /\ reads[s] = 1
        /\ \A k \in 1..Len(calls[s]) :
              LET c == calls[s][k]
                  t == lastRes[s].text
                  parsed == JSONParse(IF t = "" THEN "{}" ELSE t)
              IN
              /\ c.fn = "text" => (~c.throws /\ c.text = t)
              /\ c.fn = "json" =>
                    IF IncludesJson(lastRes[s].ct)
                    THEN /\ c.throws = parsed.throws
                         /\ ~c.throws => c.json = parsed.value
                    ELSE ~c.throws /\ c.json = [EmptyObject EXCEPT !.raw = t]

C14_Witness ==
    \E s \in Sends :
        /\ pc[s] = "returned"
        /\ lastRes[s].ct = CT_JSON /\ lastRes[s].text = B_HTML
        /\ Len(calls[s]) = 2
        /\ calls[s][1].fn = "json" /\ calls[s][1].throws
        /\ calls[s][2].fn = "text" /\ calls[s][2].text = B_HTML
        /\ reads[s] = 1

\* C15: every fetch of /ask is a POST whose body is a string carrying the
\* trimmed message and the session identifier.
C15_AskBodyCarriesMessageAndSession ==
    \A s \in Sends : \A k \in 1..Len(sent[s]) :
        sent[s][k].path = "/ask" =>
            /\ sent[s][k].method = "POST"
            /\ sent[s][k].body.type = "string"
            /\ \E i \in 1..Len(sent[s][k].body.chars) :
                  sent[s][k].body.chars[i] = Trim(messageText[s])
            /\ \E i \in 1..Len(sent[s][k].body.chars) :
                  sent[s][k].body.chars[i] = sessionId

\* ----------------------------------------------------- Edge Relay claims
\* fetch threw: the catch block answered and no backend response was had
FetchFault == relayState = "error" /\ backendResponse = NoBackendResponse

\* C16: an OPTIONS request to any path is answered with status 200, the
\* response is ended, the backend is never called, and nothing is raised.
C16_PreflightNeverCallsBackend ==
    (req.method = "OPTIONS" /\ relayState # "receiving") =>
        /\ relayState = "preflight"
        /\ res.statuses = <<200>>
        /\ res.ended = 1
        /\ res.written = << >>
        /\ backendCalls = << >>

C16_Witness ==
    /\ req.method = "OPTIONS" /\ req.path = "ask"
    /\ handlerVersion = "handler@83"
    /\ relayState = "preflight"
    /\ res.statuses = <<200>> /\ res.ended = 1
    /\ backendCalls = << >>

\* C17: when fetch to the backend throws, the answer has status 500, the
\* JSON envelope { error: 'Proxy error', details: <the error's message> } and
\* the header Access-Control-Allow-Origin.
C17_FetchFaultGivesProxyError ==
    FetchFault =>
        /\ res.statuses = <<500>>
        /\ res.envelope = [error |-> "Proxy error", details |-> "fetch failed"]
        /\ IncludesJson(res.contentType)
        /\ res.acao = "*"
        /\ res.ended = 1
        /\ res.written = << >>

C17_Witness ==
    /\ FetchFault
    /\ req.method = "POST"
    /\ Len(backendCalls) = 1
    /\ res.acao = "*" /\ res.envelope.error = "Proxy error"

\* C18: an invocation is in one of the states Receiving, Responding-OK,
\* Forwarding, Streaming-Response, Done, Error-Response; Error-Response is
\* entered only from Forwarding, before any status or chunk of the backend
\* response was given to the client; in a terminal state the status was set
\* once and the response ended once.
C18_ErrorOnlyFromForwarding ==
    /\ relayState \in {"receiving", "preflight", "forwarding", "streaming", "done", "error"}
    /\ relayState = "error" => (backendResponse = NoBackendResponse /\ res.written = << >>)
    /\ relayState \in {"preflight", "done", "error"} =>
          (Len(res.statuses) = 1 /\ res.ended = 1)

C20_EveryResponseEnumeratesCors ==
    relayState \in {"preflight", "done", "error"} =>
        /\ res.acao = "*"
        /\ res.allowMethods # ""
        /\ res.allowHeaders # ""

\* C20: every response carries Access-Control-Allow-Origin: *; the preflight
\* answer and every forwarded response name the allowed methods and headers;
\* the 500 answer to a throwing fetch carries the origin header alone.
C20_CorsHeadersByResponseKind ==
    /\ relayState \in {"preflight", "streaming", "done", "error", "rejected"} =>
          res.acao = "*"
    /\ relayState = "preflight" =>
          IF handlerVersion = "handler@3"
          THEN res.allowMethods = "GET, POST, OPTIONS" /\ res.allowHeaders = "Content-Type"
          ELSE /\ res.allowMethods = "GET, POST, OPTIONS, DELETE"
               /\ res.allowHeaders = "Content-Type, Authorization"
    /\ (relayState \in {"streaming", "done", "rejected"}
          \/ (relayState = "error" /\ ~FetchFault)) =>
          /\ res.allowMethods = "GET, POST, OPTIONS, DELETE"
          /\ res.allowHeaders = "Content-Type, Authorization"
    /\ FetchFault => (res.allowMethods = "" /\ res.allowHeaders = "")

C20_Witness ==
    /\ FetchFault
    /\ res.statuses = <<500>>
    /\ res.acao = "*"
    /\ res.allowMethods = "" /\ res.allowHeaders = ""

\* the names in a comma-separated header value
ListItems(v) ==
    CASE v = "GET, POST, OPTIONS" -> {"GET", "POST", "OPTIONS"}
      [] v = "GET, POST, OPTIONS, DELETE" -> {"GET", "POST", "OPTIONS", "DELETE"}
      [] v = "Content-Type" -> {"Content-Type"}
      [] v = "Content-Type, Authorization" -> {"Content-Type", "Authorization"}
      [] OTHER -> {}

\* C21: the preflight answer names the origin and every method and request
\* header that forwarded responses name as allowed (DELETE and Authorization
\* among them).
C21_PreflightDeclaresAllForwarded ==
    relayState = "preflight" =>
        /\ res.acao = "*"
        /\ ListItems(setCorsHeaders(FreshResponse).allowMethods) \subseteq ListItems(res.allowMethods)
        /\ ListItems(setCorsHeaders(FreshResponse).allowHeaders) \subseteq ListItems(res.allowHeaders)
        /\ "DELETE" \in ListItems(res.allowMethods)
        /\ "Authorization" \in ListItems(res.allowHeaders)

\* C22: a request that is not a preflight makes exactly one backend call, to
\* <backend origin>/<path>, with the incoming method, the incoming
\* Content-Type (application/json when there is none), the Authorization
\* header exactly when the request has one, and a body exactly when the
\* method is neither GET nor HEAD and the request has a body that is not
\* empty: a string as it is, an object serialized once.
C22_OneForwardedCallPerRequest ==
    (req.method \notin {"", "OPTIONS"} /\ relayState # "receiving") =>
        /\ Len(backendCalls) = 1
        /\ LET c == backendCalls[1]
               present == req.body.type = "object"
                          \/ (req.body.type = "string" /\ req.body.chars # << >>)
           IN
           /\ c.url = <<BACKEND_URL(handlerVersion), "/", req.path>>
           /\ c.method = req.method
           /\ c.contentType = (IF req.contentType = "" THEN "application/json"
                               ELSE req.contentType)
           /\ c.authorization = req.authorization
           /\ (c.body # NoBody) <=> (req.method \notin {"GET", "HEAD"} /\ present)
           /\ (c.body # NoBody /\ req.body.type = "string") =>
                 (c.body = req.body /\ c.stringified = 0)
           /\ (c.body # NoBody /\ req.body.type = "object") =>
                 /\ c.body = StringBody(<<"{", "\"question\":", req.body.question, "}">>)
                 /\ c.stringified = 1

C22_Witness ==
    /\ relayState = "done"
    /\ req.method = "POST" /\ req.authorization = "Bearer t" /\ req.contentType = ""
    /\ req.body.type = "object"
    /\ Len(backendCalls) = 1
    /\ backendCalls[1].authorization = "Bearer t"
    /\ backendCalls[1].contentType = "application/json"
    /\ backendCalls[1].body.type = "string"

\* how often the event occurs in the log
Count(log, ev) == Len(SelectSeq(log, LAMBDA e : e = ev))

\* the invocation is over
RelayOver == relayState \in {"preflight", "done", "error", "rejected"}

\* C23: a backend response with a body stream is relayed chunk by chunk: at
\* most one read is outstanding, every chunk read is written before the next
\* read is issued, the chunks written are the chunks read, in order, and the
\* response is ended exactly once, only after the reader reported done.
C23_SequentialRelayEndedOnce ==
    backendResponse.hasBody =>
        /\ Count(stream, "read")
              - (Count(stream, "value") + Count(stream, "done") + Count(stream, "fail")) \in {0, 1}
        /\ \A k \in 1..Len(stream) :
              /\ stream[k] = "value" => (k < Len(stream) /\ stream[k + 1] = "write")
              /\ (stream[k] = "read" /\ k > 1) => stream[k - 1] = "write"
              /\ stream[k] = "end" => (k > 1 /\ stream[k - 1] = "done")
        /\ res.written = SubSeq(backendResponse.chunks, 1, chunksRead)
        /\ Count(stream, "end") <= 1
        /\ RelayOver => Count(stream, "end") = 1

\* C24: with overlapping sends, the loading overlay is shown whenever some
\* invocation on the remote path is awaiting the readiness probe or /ask.
C24_OverlayShownWhileInFlight ==
    (\E s \in Sends : InFlight(s)) => loading

\* C25: an invocation of sendMessage that has ended with a message that is
\* not empty has put exactly one user element and exactly one bot element
\* into the chat, the user element first, whichever exit it took; one with an
\* empty message has put nothing into the chat and made no network call.
C25_OneUserThenOneBotElement ==
    \A s \in Sends : pc[s] = "done" =>
        /\ (result[s] = "empty") <=> (messageText[s] = "")
        /\ IF messageText[s] = ""
           THEN /\ Elements(s, "user") = << >>
                /\ Elements(s, "bot") = << >>
                /\ net[s] = << >>
                /\ sent[s] = << >>
           ELSE /\ Len(Elements(s, "user")) = 1
                /\ Len(Elements(s, "bot")) = 1
                /\ Elements(s, "user")[1].html = Html("text", "", 0, messageText[s])
                /\ \E i, j \in 1..Len(chat) :
                      /\ i < j
                      /\ chat[i].owner = s /\ chat[i].sender = "user"
                      /\ chat[j].owner = s /\ chat[j].sender = "bot"

C25_Witness ==
    \E s \in Sends :
        /\ pc[s] = "done"
        /\ result[s] = "logical"
        /\ Len(Elements(s, "user")) = 1
        /\ Len(Elements(s, "bot")) = 1
        /\ chat[1].sender = "user" /\ chat[2].sender = "bot"

\* the chunks joined into one text
RECURSIVE Concat(_)
Concat(q) == IF q = << >> THEN "" ELSE Head(q) \o Concat(Tail(q))

\* a legacy invocation is awaiting its fetch or a read
LegacyInFlight(s) == pc[s] \in {"legacyFetch", "legacyRead"}

\* C26: a legacy send with a message that is not empty ends with a bot
\* message rendered: one bot element holding all chunks joined (after every
\* chunk, the chunks received so far joined), or one error block when the
\* status is not OK or a read failed; the overlay is hidden on every exit.
C26_LegacySendRendersOneBotMessage ==
    \A s \in Sends :
        /\ (pc[s] = "legacyRead" /\ readCount[s] > 0) =>
              /\ Len(Elements(s, "bot")) = 1
              /\ Elements(s, "bot")[1].html =
                    Html("html", "", 0, Concat(SubSeq(response[s].chunks, 1, readCount[s])))
        /\ (pc[s] = "done" /\ result[s] = "streamed") =>
              /\ Len(Elements(s, "bot")) = 1
              /\ Elements(s, "bot")[1].html = Html("html", "", 0, Concat(response[s].chunks))
        /\ (pc[s] = "done" /\ result[s] = "caught") =>
              /\ Len(SelectSeq(Elements(s, "bot"), LAMBDA m : m.html = LEGACY_ERROR)) = 1
              /\ Elements(s, "bot")[Len(Elements(s, "bot"))].html = LEGACY_ERROR
        /\ (pc[s] = "done" /\ result[s] # "empty") => Elements(s, "bot") # << >>
        /\ (pc[s] = "done" /\ \A t \in Sends : ~LegacyInFlight(t)) => ~loading

====
